---- MODULE Spec2Model ----
(***************************************************************************)
(* Verification model of the tracing pipeline of the ray tracer:           *)
(*   hittable.rs  HitRecord::new, Sphere/Triangle/Parallelogram/World hit  *)
(*   material.rs  ColorType::color (Checker)                               *)
(*   render.rs    ray_color, render                                        *)
(* f64 scalars are modelled by exact rationals <<num, den>> (den >= 0,     *)
(* den = 0 standing for +infinity); unit vectors by the primitive integer  *)
(* vector of their direction.                                              *)
(***************************************************************************)
EXTENDS Integers, Sequences, FiniteSets, TLC

VARIABLES
    \* World::hit (hittable.rs)
    ray, objects, t_min, t_max, closest, result, idx, hpc, lastCall,
    \* HitRecord::new (hittable.rs)
    raw_normal, rec,
    \* ColorType::color (material.rs)
    point, checker, color,
    \* ray_color (render.rs)
    depth, depth0, stack, queries, radiance, tpc, cur, outcome,
    \* render (render.rs)
    camera, samples_per_pixel, pool, call, rpc, owner, worker, lock,
    img, count, saved, traced,
    \* sampling coordinates of render (render.rs)
    px, uv

hitVars    == <<ray, objects, t_min, t_max, closest, result, idx, hpc, lastCall>>
recVars    == <<raw_normal, rec>>
colorVars  == <<point, checker, color>>
traceVars  == <<depth, depth0, stack, queries, radiance, tpc, cur, outcome>>
renderVars == <<camera, samples_per_pixel, pool, call, rpc, owner, worker,
                lock, img, count, saved, traced>>
uvVars     == <<px, uv>>
vars == <<hitVars, recVars, colorVars, traceVars, renderVars, uvVars>>

----------------------------------------------------------------------------
(* Bounds of the model *)
MaxObjects == 3      \* longest World checked
MaxCoord   == 2      \* |component| of the vectors given to HitRecord::new
MaxPoint   == 4      \* |component| of the points given to ColorType::color
MaxCell    == 2      \* largest checker cell size
MaxDim     == 3      \* largest image width and height of the sampling check
JitterDen  == 2      \* the jitter draws are k / JitterDen, k in 0..JitterDen-1
MaxWidth   == 2      \* largest image width rendered
MaxHeight  == 2      \* largest image height rendered
MaxSamples == 2      \* largest samples_per_pixel rendered
MaxCalls   == 2      \* calls of render in one process

----------------------------------------------------------------------------
(* Scalars and vectors *)

Abs(x) == IF x < 0 THEN -x ELSE x

RECURSIVE Gcd(_, _)
Gcd(a, b) == IF b = 0 THEN a ELSE Gcd(b, a % b)

\* the rational n/d with a non-negative denominator
Rat(n, d) == IF d < 0 THEN <<-n, -d>> ELSE <<n, d>>
Infinity == <<1, 0>>
Lt(x, y) == x[1] * y[2] < y[1] * x[2]
RatEq(x, y) == x[1] * y[2] = y[1] * x[2]
RatNeg(x) == <<-x[1], x[2]>>

Add(v, w) == <<v[1] + w[1], v[2] + w[2], v[3] + w[3]>>
Sub(v, w) == <<v[1] - w[1], v[2] - w[2], v[3] - w[3]>>
Scale(k, v) == <<k * v[1], k * v[2], k * v[3]>>
Neg(v) == <<-v[1], -v[2], -v[3]>>
Dot(v, w) == v[1] * w[1] + v[2] * w[2] + v[3] * w[3]
Cross(v, w) == <<v[2] * w[3] - v[3] * w[2],
                 v[3] * w[1] - v[1] * w[3],
                 v[1] * w[2] - v[2] * w[1]>>
\* determinant of the matrix whose columns are c1, c2, c3
Det(c1, c2, c3) == Dot(c1, Cross(c2, c3))

\* the unit vector of v, represented by the primitive integer vector of its
\* direction (the zero vector has no direction and stays zero)
Normalized(v) ==
    LET g == Gcd(Gcd(Abs(v[1]), Abs(v[2])), Abs(v[3]))
    IN  IF g = 0 THEN v ELSE <<v[1] \div g, v[2] \div g, v[3] \div g>>

\* the square root of a perfect square
Sqrt(n) == CHOOSE k \in 0..n : k * k = n
IsSquare(n) == \E k \in 0..n : k * k = n

\* Ray::at, as the numerators of the point over the denominator of t
RayAt(r, t) == Add(Scale(t[2], r.origin), Scale(t[1], r.direction))

----------------------------------------------------------------------------
(* hittable.rs *)

None == [some |-> FALSE]

HitRecordNewFlipped(r, normal, t, material) ==
    LET front_face == Dot(r.direction, normal) < 0
    IN  [some |-> TRUE, point |-> RayAt(r, t),
         normal |-> IF front_face THEN Neg(normal) ELSE normal,
         t |-> t, front_face |-> front_face, material |-> material]

HitRecordNew(r, normal, t, material) ==
    LET front_face == Dot(r.direction, normal) < 0
    IN  [some |-> TRUE, point |-> RayAt(r, t),
         normal |-> IF front_face THEN normal ELSE Neg(normal),
         t |-> t, front_face |-> front_face, material |-> material]

\* the two roots of the sphere's quadratic, smaller first
SphereRoots(s, r) ==
    LET oc == Sub(r.origin, s.center)
        a == Dot(r.direction, r.direction)
        half_b == Dot(oc, r.direction)
        c == Dot(oc, oc) - s.radius * s.radius
        discrim == half_b * half_b - a * c
    IN  IF discrim < 0 THEN <<>>
        ELSE <<Rat(-half_b - Sqrt(discrim), a), Rat(-half_b + Sqrt(discrim), a)>>

SphereNormal(s, r, root) ==
    Normalized(Sub(RayAt(r, root), Scale(root[2], s.center)))

SphereHitFarFirst(s, r, lo, hi) ==
    LET roots == SphereRoots(s, r)
    IN  IF roots = <<>> THEN None
        ELSE IF Lt(lo, roots[2]) /\ Lt(roots[2], hi)
             THEN HitRecordNew(r, SphereNormal(s, r, roots[2]), roots[2], s.material)
        ELSE IF Lt(lo, roots[1]) /\ Lt(roots[1], hi)
             THEN HitRecordNew(r, SphereNormal(s, r, roots[1]), roots[1], s.material)
        ELSE None

SphereHit(s, r, lo, hi) ==
    LET roots == SphereRoots(s, r)
    IN  IF roots = <<>> THEN None
        ELSE IF Lt(lo, roots[1]) /\ Lt(roots[1], hi)
             THEN HitRecordNew(r, SphereNormal(s, r, roots[1]), roots[1], s.material)
        ELSE IF Lt(lo, roots[2]) /\ Lt(roots[2], hi)
             THEN HitRecordNew(r, SphereNormal(s, r, roots[2]), roots[2], s.material)
        ELSE None

\* Triangle::normal and Parallelogram::normal
PlaneNormal(p) ==
    Normalized(Cross(Sub(p.vertices[2], p.vertices[1]),
                     Sub(p.vertices[3], p.vertices[1])))

\* transform_inv * new_ray.origin: the solution x of transform * x = origin,
\* by Cramer's rule; <<>> when the matrix has no inverse
LocalOrigin(p, r) ==
    LET o == Sub(r.origin, p.vertices[1])
        e1 == Sub(p.vertices[2], p.vertices[1])
        e2 == Sub(p.vertices[3], p.vertices[1])
        d == r.direction
        det == Det(e1, e2, d)
    IN  IF det = 0 THEN <<>>
        ELSE <<Rat(Det(o, e2, d), det), Rat(Det(e1, o, d), det),
               Rat(Det(e1, e2, o), det)>>

Zero == <<0, 1>>
One == <<1, 1>>
RatAdd(x, y) == <<x[1] * y[2] + y[1] * x[2], x[2] * y[2]>>

TriangleHit(p, r, lo, hi) ==
    LET o == LocalOrigin(p, r)
    IN  IF o = <<>> THEN None
        ELSE IF /\ Lt(Zero, o[1])
                /\ Lt(Zero, o[2])
                /\ Lt(RatAdd(o[1], o[2]), One)
                /\ Lt(lo, RatNeg(o[3]))
                /\ Lt(RatNeg(o[3]), hi)
             THEN HitRecordNew(r, PlaneNormal(p), RatNeg(o[3]), p.material)
        ELSE None

ParallelogramHit(p, r, lo, hi) ==
    LET o == LocalOrigin(p, r)
    IN  IF o = <<>> THEN None
        ELSE IF /\ Lt(Zero, o[1])
                /\ Lt(Zero, o[2])
                /\ Lt(o[1], One)
                /\ Lt(o[2], One)
                /\ Lt(lo, RatNeg(o[3]))
                /\ Lt(RatNeg(o[3]), hi)
             THEN HitRecordNew(r, PlaneNormal(p), RatNeg(o[3]), p.material)
        ELSE None

\* dynamic dispatch of Hittable::hit over the primitives
Hit(o, r, lo, hi) ==
    CASE o.kind = "sphere" -> SphereHit(o, r, lo, hi)
      [] o.kind = "triangle" -> TriangleHit(o, r, lo, hi)
      [] o.kind = "parallelogram" -> ParallelogramHit(o, r, lo, hi)

\* one iteration of the loop of World::hit: acc = [result, closest]
WorldStepKeepBound(acc, o, r, lo) ==
    LET h == Hit(o, r, lo, acc.closest)
    IN  IF h.some THEN [result |-> h, closest |-> acc.closest] ELSE acc

WorldStep(acc, o, r, lo) ==
    LET h == Hit(o, r, lo, acc.closest)
    IN  IF h.some THEN [result |-> h, closest |-> h.t] ELSE acc

----------------------------------------------------------------------------
(* World::hit as a state machine over a scene *)

\* the lower bound ray_color passes to World::hit: 0.00069420
Epsilon == <<3471, 5000000>>

Sphere(c, r, m) == [kind |-> "sphere", center |-> c, radius |-> r, material |-> m]
Triangle(v, m) == [kind |-> "triangle", vertices |-> v, material |-> m]
Parallelogram(v, m) == [kind |-> "parallelogram", vertices |-> v, material |-> m]

\* the primitives scenes are built from; on the ray from the origin down -z
\* the first four are met at t = 4 (a tie), 4, 2 and 4
Primitives ==
    { Sphere(<<0, 0, -5>>, 1, "m1"),
      Sphere(<<0, 0, -7>>, 3, "m2"),
      Sphere(<<0, 0, -3>>, 1, "m3"),
      Triangle(<< <<-1, -1, -4>>, <<3, -1, -4>>, <<-1, 3, -4>> >>, "m4"),
      Parallelogram(<< <<-1, -1, -2>>, <<1, -1, -2>>, <<-1, 1, -2>> >>, "m5"),
      Triangle(<< <<0, 0, -6>>, <<2, 0, -6>>, <<0, 2, -6>> >>, "m6") }

Rays ==
    { [origin |-> o, direction |-> d] :
        o \in {<<0, 0, 0>>, <<0, 0, -5>>, <<1, 1, 0>>},
        d \in {<<0, 0, -1>>, <<0, 0, -2>>, <<0, 0, 1>>, <<-1, -1, -4>>} }

TMins == {Zero, Epsilon, <<4, 1>>}
TMaxs == {Infinity, <<4, 1>>, <<6, 1>>}

\* every sphere of the scene has a negative or a perfect-square discriminant
\* for the ray, so its roots are rationals
RationalRoots(s, r) ==
    LET oc == Sub(r.origin, s.center)
        a == Dot(r.direction, r.direction)
        half_b == Dot(oc, r.direction)
        c == Dot(oc, oc) - s.radius * s.radius
        discrim == half_b * half_b - a * c
    IN  discrim < 0 \/ IsSquare(discrim)

Worlds == UNION { [1..n -> Primitives] : n \in 0..MaxObjects }

HitIdle ==
    /\ ray = [origin |-> <<0, 0, 0>>, direction |-> <<0, 0, -1>>]
    /\ objects = <<>>
    /\ t_min = Zero
    /\ t_max = Infinity
    /\ closest = Infinity
    /\ result = None
    /\ idx = 1
    /\ hpc = "idle"
    /\ lastCall = None

RecIdle == raw_normal = <<0, 0, 0>> /\ rec = None
ColorIdle == point = <<0, 0, 0>> /\ checker = 1 /\ color = "none"
TraceIdle ==
    /\ depth = 0 /\ depth0 = 0 /\ stack = <<>> /\ queries = 0 /\ radiance = <<0, 0, 0>>
    /\ tpc = "idle" /\ cur = 0 /\ outcome = "none"
RenderIdle ==
    /\ camera = [width |-> 0, height |-> 0]
    /\ samples_per_pixel = 0
    /\ pool = FALSE /\ call = 0 /\ rpc = "idle" /\ owner = <<>>
    /\ worker = <<>> /\ lock = {} /\ img = <<>> /\ count = 0
    /\ saved = FALSE /\ traced = FALSE
UvIdle == px = <<>> /\ uv = <<>>

InitHit ==
    /\ ray \in Rays
    /\ objects \in Worlds
    /\ \A k \in DOMAIN objects :
          objects[k].kind = "sphere" => RationalRoots(objects[k], ray)
    /\ t_min \in TMins
    /\ t_max \in TMaxs
    /\ closest = t_max
    /\ result = None
    /\ idx = 1
    /\ hpc = "loop"
    /\ lastCall = None
    /\ RecIdle /\ ColorIdle /\ TraceIdle /\ RenderIdle /\ UvIdle

\* one iteration of `for object in &self.objects`
WorldHitIter ==
    /\ hpc = "loop"
    /\ idx <= Len(objects)
    /\ LET acc == WorldStep([result |-> result, closest |-> closest],
                            objects[idx], ray, t_min)
       IN  /\ result' = acc.result
           /\ closest' = acc.closest
    /\ lastCall' = [some |-> TRUE, object |-> objects[idx], lo |-> t_min,
                    hi |-> closest, rec |-> Hit(objects[idx], ray, t_min, closest)]
    /\ idx' = idx + 1
    /\ UNCHANGED <<ray, objects, t_min, t_max, hpc>>
    /\ UNCHANGED <<recVars, colorVars, traceVars, renderVars, uvVars>>

\* the loop is over: World::hit returns result
WorldHitReturn ==
    /\ hpc = "loop"
    /\ idx > Len(objects)
    /\ hpc' = "done"
    /\ UNCHANGED <<ray, objects, t_min, t_max, closest, result, idx, lastCall>>
    /\ UNCHANGED <<recVars, colorVars, traceVars, renderVars, uvVars>>

NextHit == WorldHitIter \/ WorldHitReturn
SpecHit == InitHit /\ [][NextHit]_vars

----------------------------------------------------------------------------
(* C1, C9: nearest hit *)

\* the individual tests hit(ray, t_min, t_max) of the primitives that hit
Individual == { k \in DOMAIN objects : Hit(objects[k], ray, t_min, t_max).some }
IndT(k) == Hit(objects[k], ray, t_min, t_max).t
\* the first primitive in iteration order among those of minimum t
Nearest ==
    CHOOSE k \in Individual :
        \A m \in Individual : Lt(IndT(k), IndT(m)) \/ (RatEq(IndT(k), IndT(m)) /\ k <= m)

\* C1: World::hit returns none iff every individual test returns none, and
\* otherwise exactly the record of the minimum-t individual hit, the earlier
\* primitive winning a tie
C1_NearestHit ==
    hpc = "done" =>
        /\ (result = None) <=> (Individual = {})
        /\ Individual # {} => result = Hit(objects[Nearest], ray, t_min, t_max)

\* a finished query where two primitives tie at the minimum t
C1_Witness ==
    /\ hpc = "done"
    /\ result # None
    /\ \E k, m \in Individual :
          /\ k < m
          /\ RatEq(IndT(k), IndT(m))
          /\ objects[k].material # objects[m].material
          /\ k = Nearest
          /\ result.material = objects[k].material

\* the roots of the last sphere call that lie strictly inside its interval
InRange(c) ==
    LET roots == SphereRoots(c.object, ray)
    IN  { n \in DOMAIN roots : Lt(c.lo, roots[n]) /\ Lt(roots[n], c.hi) }

\* C9: a sphere with two real roots returns the smaller root that lies
\* strictly inside (t_min, t_max), and none when neither does
C9_SmallerRoot ==
    (lastCall.some /\ lastCall.object.kind = "sphere"
        /\ SphereRoots(lastCall.object, ray) # <<>>) =>
        LET roots == SphereRoots(lastCall.object, ray)
        IN  /\ (lastCall.rec = None) <=> (InRange(lastCall) = {})
            /\ InRange(lastCall) # {} =>
                  /\ \A n \in InRange(lastCall) : ~Lt(roots[n], lastCall.rec.t)
                  /\ \E n \in InRange(lastCall) : roots[n] = lastCall.rec.t

\* a sphere call whose smaller root is out of range and whose larger is in
C9_Witness ==
    /\ lastCall.some /\ lastCall.object.kind = "sphere"
    /\ SphereRoots(lastCall.object, ray) # <<>>
    /\ InRange(lastCall) = {2}
    /\ lastCall.rec # None
    /\ lastCall.rec.t = SphereRoots(lastCall.object, ray)[2]

----------------------------------------------------------------------------
(* HitRecord::new on arbitrary directions and raw normals *)

Cube(n) == { <<x, y, z>> : x \in -n..n, y \in -n..n, z \in -n..n }

InitRecord ==
    /\ ray \in { [origin |-> <<0, 0, 0>>, direction |-> d] : d \in Cube(MaxCoord) }
    /\ raw_normal \in Cube(MaxCoord)
    /\ rec = None
    /\ objects = <<>> /\ t_min = Zero /\ t_max = Infinity /\ closest = Infinity
    /\ result = None /\ idx = 1 /\ hpc = "idle" /\ lastCall = None
    /\ ColorIdle /\ TraceIdle /\ RenderIdle /\ UvIdle

HitRecordNewCall ==
    /\ rec = None
    /\ rec' = HitRecordNew(ray, raw_normal, One, "m1")
    /\ UNCHANGED <<raw_normal, hitVars, colorVars, traceVars, renderVars, uvVars>>

NextRecord == HitRecordNewCall
SpecRecord == InitRecord /\ [][NextRecord]_vars

\* C7: front_face is true iff the ray direction and the raw normal have a
\* negative dot product, and the stored normal never has a positive dot
\* product with the ray direction
C7_FrontFace ==
    rec.some =>
        /\ rec.front_face <=> (Dot(ray.direction, raw_normal) < 0)
        /\ Dot(ray.direction, rec.normal) <= 0

\* a record built for a ray that meets the surface from behind
C7_Witness ==
    /\ rec.some
    /\ Dot(ray.direction, raw_normal) > 0
    /\ ~rec.front_face
    /\ rec.normal = Neg(raw_normal)

----------------------------------------------------------------------------
(* material.rs: ColorType::Checker *)

\* f64::floor of the quotient a / b, b > 0
Floor(a, b) == a \div b

\* the % of Rust on i64: the remainder has the sign of the dividend
Rem(a, b) == IF a >= 0 THEN a % b ELSE -((-a) % b)

CheckerColorOddTest(p, f) ==
    IF Rem(Floor(p[1], f) + Floor(p[2], f) + Floor(p[3], f), 2) = 1
    THEN "y" ELSE "x"

\* ColorType::color for Checker(x, y, f)
CheckerColor(p, f) ==
    IF Rem(Floor(p[1], f) + Floor(p[2], f) + Floor(p[3], f), 2) = 0
    THEN "x" ELSE "y"

InitColor ==
    /\ point \in Cube(MaxPoint)
    /\ checker \in 1..MaxCell
    /\ color = "none"
    /\ HitIdle /\ RecIdle /\ TraceIdle /\ RenderIdle /\ UvIdle

ColorCall ==
    /\ color = "none"
    /\ color' = CheckerColor(point, checker)
    /\ UNCHANGED <<point, checker, hitVars, recVars, traceVars, renderVars, uvVars>>

NextColor == ColorCall
SpecColor == InitColor /\ [][NextColor]_vars

\* the index of the cell of size f that holds the coordinate x
CellOf(x, f) ==
    CHOOSE q \in -(MaxPoint + MaxCell + 1)..(MaxPoint + MaxCell + 1) :
        q * f <= x /\ x < (q + 1) * f
IsEven(n) == \E h \in -(3 * MaxPoint + 6)..(3 * MaxPoint + 6) : n = 2 * h
Axes == {<<1, 0, 0>>, <<0, 1, 0>>, <<0, 0, 1>>}

\* C8: the first color is selected iff the cell indices sum to an even
\* number, also for negative indices, and the cells next to it along each
\* axis select the other color
C8_CheckerParity ==
    color # "none" =>
        /\ (color = "x") <=>
              IsEven(CellOf(point[1], checker) + CellOf(point[2], checker)
                       + CellOf(point[3], checker))
        /\ color \in {"x", "y"}
        /\ \A e \in Axes :
              /\ CheckerColor(Add(point, Scale(checker, e)), checker) # color
              /\ CheckerColor(Sub(point, Scale(checker, e)), checker) # color

\* a point whose cell indices are negative with an odd sum
C8_Witness ==
    /\ color = "y"
    /\ point[1] < 0 /\ point[2] < 0 /\ point[3] < 0
    /\ ~IsEven(CellOf(point[1], checker) + CellOf(point[2], checker)
                 + CellOf(point[3], checker))

----------------------------------------------------------------------------
(* render.rs: the viewport coordinates of one sample *)

\* u and v of lines 163-165 for column i, row j and the two jitter draws
\* ju / JitterDen and jv / JitterDen
SampleUV(cam, i, j, ju, jv) ==
    [u |-> Rat(i * JitterDen + ju, (cam.width - 1) * JitterDen),
     v |-> Rat((cam.height - j) * JitterDen + jv, (cam.height - 1) * JitterDen)]

InitUv ==
    /\ camera \in [width : 2..MaxDim, height : 2..MaxDim]
    /\ px \in [i : 0..(MaxDim - 1), j : 0..(MaxDim - 1),
               ju : 0..(JitterDen - 1), jv : 0..(JitterDen - 1)]
    /\ px.i < camera.width
    /\ px.j < camera.height
    /\ uv = <<>>
    /\ samples_per_pixel = 0
    /\ pool = FALSE /\ call = 0 /\ rpc = "idle" /\ owner = <<>>
    /\ worker = <<>> /\ lock = {} /\ img = <<>> /\ count = 0
    /\ saved = FALSE /\ traced = FALSE
    /\ HitIdle /\ RecIdle /\ ColorIdle /\ TraceIdle

SampleCall ==
    /\ uv = <<>>
    /\ uv' = SampleUV(camera, px.i, px.j, px.ju, px.jv)
    /\ UNCHANGED <<px, hitVars, recVars, colorVars, traceVars, renderVars>>

NextUv == SampleCall
SpecUv == InitUv /\ [][NextUv]_vars

Le(x, y) == x[1] * y[2] <= y[1] * x[2]
InUnit(x) == x[2] > 0 /\ Le(Zero, x) /\ Le(x, One)

\* C5: the u and v given to Camera::get_ray lie in [0, 1]
C5_InUnitSquare ==
    uv # <<>> => InUnit(uv.u) /\ InUnit(uv.v)

----------------------------------------------------------------------------
(* render.rs: ray_color, one action per step of the recursion.  Radiance is *)
(* in thousandths; an attenuation is a vector of whole factors.  stack      *)
(* holds the attenuations of the calls waiting for their recursive result.  *)

RenderDepth == 16

Black == <<0, 0, 0>>
\* unit_dir[1] of the rays traced
Directions == {-1, 0, 1}
Attenuations == {<<1, 0, 1>>}
Emissions == {<<5000, 200, 300>>, Black}

ComponentMul(a, b) == <<a[1] * b[1], a[2] * b[2], a[3] * b[3]>>

\* lines 28-31, for unit_dir[1] = y: t = 0.5 * y + 0.5
Background(y) ==
    LET t2 == y + 1
        lo == Scale(2 - t2, <<80, 100, 200>>)
        hi == Scale(t2, <<32, 40, 80>>)
    IN  <<(lo[1] + hi[1]) \div 2, (lo[2] + hi[2]) \div 2, (lo[3] + hi[3]) \div 2>>

ExhaustedBelowZero(d) == d < 0

\* line 16
Exhausted(d) == d <= 0

InitTrace ==
    /\ depth0 \in -1..RenderDepth
    /\ depth = depth0
    /\ stack = <<>>
    /\ queries = 0
    /\ radiance = Black
    /\ tpc = "call"
    /\ cur \in Directions
    /\ outcome = "none"
    /\ HitIdle /\ RecIdle /\ ColorIdle /\ RenderIdle /\ UvIdle

TraceRest == UNCHANGED <<depth0, hitVars, recVars, colorVars, renderVars, uvVars>>

\* lines 16-18: the bounce budget is spent
RayColorExhausted ==
    /\ tpc = "call"
    /\ Exhausted(depth)
    /\ radiance' = Black
    /\ outcome' = "exhausted"
    /\ tpc' = "return"
    /\ UNCHANGED <<depth, stack, queries, cur>>
    /\ TraceRest

\* line 19: world.hit returns None; lines 28-31
RayColorMiss ==
    /\ tpc = "call"
    /\ ~Exhausted(depth)
    /\ queries' = queries + 1
    /\ radiance' = Background(cur)
    /\ outcome' = "miss"
    /\ tpc' = "return"
    /\ UNCHANGED <<depth, stack, cur>>
    /\ TraceRest

\* lines 21-23: scatter returns (Some(scattered), Some(color))
RayColorScatter ==
    /\ tpc = "call"
    /\ ~Exhausted(depth)
    /\ queries' = queries + 1
    /\ \E attenuation \in Attenuations, scattered \in Directions :
          /\ stack' = Append(stack, attenuation)
          /\ cur' = scattered
    /\ depth' = depth - 1
    /\ outcome' = "scattered"
    /\ UNCHANGED <<radiance, tpc>>
    /\ TraceRest

\* line 24: scatter returns (None, Some(color))
RayColorEmit ==
    /\ tpc = "call"
    /\ ~Exhausted(depth)
    /\ queries' = queries + 1
    /\ \E emitted \in Emissions : radiance' = emitted
    /\ outcome' = "emitted"
    /\ tpc' = "return"
    /\ UNCHANGED <<depth, stack, cur>>
    /\ TraceRest

\* line 25: scatter returns (None, None) or (Some(_), None); the match arm
\* does nothing and control falls to lines 28-31
RayColorOther ==
    /\ tpc = "call"
    /\ ~Exhausted(depth)
    /\ queries' = queries + 1
    /\ \E pair \in {"none_none", "some_none"} : outcome' = pair
    /\ radiance' = Background(cur)
    /\ tpc' = "return"
    /\ UNCHANGED <<depth, stack, cur>>
    /\ TraceRest

\* line 22: the recursive call returned to its caller
RayColorReturn ==
    /\ tpc = "return"
    /\ stack # <<>>
    /\ radiance' = ComponentMul(stack[Len(stack)], radiance)
    /\ stack' = SubSeq(stack, 1, Len(stack) - 1)
    /\ depth' = depth + 1
    /\ outcome' = "multiplied"
    /\ UNCHANGED <<queries, tpc, cur>>
    /\ TraceRest

\* the outermost call returned
RayColorDone ==
    /\ tpc = "return"
    /\ stack = <<>>
    /\ tpc' = "done"
    /\ UNCHANGED <<depth, stack, queries, radiance, cur, outcome>>
    /\ TraceRest

NextTrace ==
    \/ RayColorExhausted \/ RayColorMiss \/ RayColorScatter \/ RayColorEmit
    \/ RayColorOther \/ RayColorReturn \/ RayColorDone
SpecTrace == InitTrace /\ [][NextTrace]_vars
\* a call of a sequential function keeps running until it returns
SpecTraceFair == SpecTrace /\ WF_vars(NextTrace)

\* C2: a hit whose scatter returns (None, None) makes the call return black
C2_AbsorbIsBlack ==
    (tpc = "return" /\ outcome = "none_none") => radiance = Black

Max(a, b) == IF a >= b THEN a ELSE b

\* C6: a call with depth d returns, having made at most max(d, 0) queries
\* of the world (at most 16 from render), and having made none and
\* returning black when d <= 0
C6_Terminates ==
    <>(/\ tpc = "done"
       /\ queries <= Max(depth0, 0)
       /\ queries <= RenderDepth
       /\ depth0 <= 0 => (queries = 0 /\ radiance = Black))

\* a call from render that spent its whole budget of 16 bounces
C6_Witness ==
    /\ tpc = "done"
    /\ depth0 = RenderDepth
    /\ queries = RenderDepth

----------------------------------------------------------------------------
(* render.rs: render.  worker[w] is the position of pool thread w in the   *)
(* closure of for_each; owner[i] is the thread column i was handed to      *)
(* (0: not yet); lock is the set of threads holding a guard of the mutex   *)
(* of img.                                                                 *)

NumThreads == 6
Threads == 1..NumThreads

Columns(cam) == 0..(cam.width - 1)
Rows(cam) == 0..(cam.height - 1)
Pixels(cam) == Columns(cam) \X Rows(cam)

IdleWorker == [pc |-> "idle", i |-> 0, j |-> 0, s |-> 0]

\* ImageBuffer::new: no pixel written yet
NewImage(cam) == [p \in Pixels(cam) |-> [writes |-> 0, by |-> {}]]

BuildGlobalAlwaysOk(initialized) == FALSE

\* ThreadPoolBuilder::build_global returns Err once the global pool exists
BuildGlobalFails(initialized) == initialized

UnclaimedAll(own) == DOMAIN own

\* the items of the parallel iterator not yet given to a closure call
Unclaimed(own) == { i \in DOMAIN own : own[i] = 0 }

\* Mutex::lock returns once no other guard is alive
MutexFree(held) == held = {}

DropGuardLeak(held, w) == held

\* the guard `image` is dropped at the end of the body of the row loop
DropGuard(held, w) == held \ {w}

InitRender ==
    /\ camera \in [width : 1..MaxWidth, height : 1..MaxHeight]
    /\ samples_per_pixel \in 1..MaxSamples
    /\ pool = FALSE
    /\ call = 0
    /\ rpc = "idle"
    /\ owner = [i \in Columns(camera) |-> 0]
    /\ worker = [w \in Threads |-> IdleWorker]
    /\ lock = {}
    /\ img = NewImage(camera)
    /\ count = 0
    /\ saved = FALSE
    /\ traced = FALSE
    /\ HitIdle /\ RecIdle /\ ColorIdle /\ TraceIdle /\ UvIdle

RenderRest ==
    UNCHANGED <<camera, samples_per_pixel, hitVars, recVars, colorVars,
                traceVars, uvVars>>

\* lines 146-149: a call of render begins
RenderCall ==
    /\ rpc \in {"idle", "returned", "panicked"}
    /\ call < MaxCalls
    /\ call' = call + 1
    /\ img' = NewImage(camera)
    /\ count' = 0
    /\ saved' = FALSE
    /\ traced' = FALSE
    /\ owner' = [i \in Columns(camera) |-> 0]
    /\ rpc' = "setup"
    /\ UNCHANGED <<pool, worker, lock>>
    /\ RenderRest

\* lines 151-154: the global pool is built
BuildGlobalOk ==
    /\ rpc = "setup"
    /\ ~BuildGlobalFails(pool)
    /\ pool' = TRUE
    /\ rpc' = "parallel"
    /\ UNCHANGED <<call, owner, worker, lock, img, count, saved, traced>>
    /\ RenderRest

\* lines 151-154: build_global fails and unwrap panics
BuildGlobalPanic ==
    /\ rpc = "setup"
    /\ BuildGlobalFails(pool)
    /\ rpc' = "panicked"
    /\ UNCHANGED <<pool, call, owner, worker, lock, img, count, saved, traced>>
    /\ RenderRest

\* lines 156-160: an idle thread is given a column and enters the row loop
TakeColumn(w) ==
    /\ rpc = "parallel"
    /\ worker[w].pc = "idle"
    /\ \E i \in Unclaimed(owner) :
          /\ owner' = [owner EXCEPT ![i] = w]
          /\ worker' = [worker EXCEPT ![w] =
                 [pc |-> IF camera.height > 0 THEN "sample" ELSE "count",
                  i |-> i, j |-> 0, s |-> 0]]
    /\ UNCHANGED <<pool, call, rpc, lock, img, count, saved, traced>>
    /\ RenderRest

\* lines 162-168: one sample of the pixel is traced
Sample(w) ==
    /\ worker[w].pc = "sample"
    /\ worker[w].s < samples_per_pixel
    /\ worker' = [worker EXCEPT ![w].s = @ + 1]
    /\ traced' = TRUE
    /\ UNCHANGED <<pool, call, rpc, owner, lock, img, count, saved>>
    /\ RenderRest

\* line 169: the sampling loop is over and the mutex of img is taken
Lock(w) ==
    /\ worker[w].pc = "sample"
    /\ worker[w].s >= samples_per_pixel
    /\ MutexFree(lock)
    /\ lock' = lock \cup {w}
    /\ worker' = [worker EXCEPT ![w].pc = "write"]
    /\ UNCHANGED <<pool, call, rpc, owner, img, count, saved, traced>>
    /\ RenderRest

\* line 170: put_pixel(i, j, ...)
PutPixel(w) ==
    /\ worker[w].pc = "write"
    /\ LET p == <<worker[w].i, worker[w].j>>
       IN  img' = [img EXCEPT ![p] = [writes |-> @.writes + 1,
                                      by |-> @.by \cup {w}]]
    /\ worker' = [worker EXCEPT ![w].pc = "unlock"]
    /\ UNCHANGED <<pool, call, rpc, owner, lock, count, saved, traced>>
    /\ RenderRest

\* line 171: the body of the row loop ends, dropping the guard; next row
Unlock(w) ==
    /\ worker[w].pc = "unlock"
    /\ lock' = DropGuard(lock, w)
    /\ worker' = [worker EXCEPT ![w] =
           [pc |-> IF @.j + 1 < camera.height THEN "sample" ELSE "count",
            i |-> @.i, j |-> @.j + 1, s |-> 0]]
    /\ UNCHANGED <<pool, call, rpc, owner, img, count, saved, traced>>
    /\ RenderRest

\* lines 172-173: the column is counted and the closure returns
Count(w) ==
    /\ worker[w].pc = "count"
    /\ count' = count + 1
    /\ worker' = [worker EXCEPT ![w] = IdleWorker]
    /\ UNCHANGED <<pool, call, rpc, owner, lock, img, saved, traced>>
    /\ RenderRest

\* line 174: for_each returns when every column was processed
Join ==
    /\ rpc = "parallel"
    /\ Unclaimed(owner) = {}
    /\ \A w \in Threads : worker[w].pc = "idle"
    /\ rpc' = "save"
    /\ UNCHANGED <<pool, call, owner, worker, lock, img, count, saved, traced>>
    /\ RenderRest

\* lines 176-181: the image is saved, successfully or not, and render returns
Save ==
    /\ rpc = "save"
    /\ saved' = TRUE
    /\ rpc' = "returned"
    /\ UNCHANGED <<pool, call, owner, worker, lock, img, count, traced>>
    /\ RenderRest

NextRender ==
    \/ RenderCall \/ BuildGlobalOk \/ BuildGlobalPanic
    \/ \E w \in Threads :
          \/ TakeColumn(w) \/ Sample(w) \/ Lock(w) \/ PutPixel(w)
          \/ Unlock(w) \/ Count(w)
    \/ Join \/ Save
SpecRender == InitRender /\ [][NextRender]_vars

\* C3: no pixel is written twice or by two threads; a written pixel (i, j)
\* was written by the thread that was given column i; when the parallel
\* loop is over every pixel has been written exactly once
C3_OneWriter ==
    \A p \in Pixels(camera) :
        /\ img[p].writes <= 1
        /\ img[p].writes = 1 => img[p].by = {owner[p[1]]}
        /\ rpc \in {"save", "returned"} => img[p].writes = 1

\* a finished render whose columns were written by different threads
C3_Witness ==
    /\ rpc = "returned"
    /\ camera.height > 1
    /\ \E p, q \in Pixels(camera) : img[p].by # img[q].by
    /\ \A p \in Pixels(camera) : img[p].writes = 1

\* C4: at most one thread holds the mutex of img, and a thread that holds
\* it is writing its pixel or about to drop the guard: it is not sampling
C4_LockOnlyAroundWrite ==
    /\ Cardinality(lock) <= 1
    /\ \A w \in Threads :
          /\ w \in lock => worker[w].pc \in {"write", "unlock"}
          /\ worker[w].pc \in {"write", "unlock"} => w \in lock

\* a thread holds the mutex after its write while another is tracing and a
\* written pixel shows the holder already released once
C4_Witness ==
    \E w, x \in Threads :
        /\ w # x
        /\ lock = {w}
        /\ worker[w].pc = "unlock"
        /\ worker[w].j > 0
        /\ worker[x].pc = "sample"
        /\ traced

\* C10: only the first call of render in a process gets past the setup of
\* the global pool: a later call panics there, tracing, writing and saving
\* nothing
C10_SecondCallFails ==
    /\ rpc \in {"parallel", "save", "returned"} => call = 1
    /\ call >= 2 =>
          /\ rpc \in {"setup", "panicked"}
          /\ ~traced /\ ~saved
          /\ \A p \in Pixels(camera) : img[p].writes = 0
          /\ \A w \in Threads : worker[w].pc = "idle"

\* the second call has panicked after the first returned
C10_Witness ==
    /\ call = 2
    /\ rpc = "panicked"
    /\ pool

====
